---- MODULE Spec2Model ----
(***************************************************************************)
(* Slack Events -> GitHub QA relay (services/slack-bot, route handler).    *)
(* One delivery is one run of handler(); every awaited network call is one *)
(* step.  Strings are TLA+ strings and the string functions of the code    *)
(* (trim, toLowerCase, startsWith, includes, split, the regular            *)
(* expressions of extractQaContext) are computed character by character.   *)
(***************************************************************************)
EXTENDS Integers, Sequences, FiniteSets, TLC

\* ------------------------------------------------------------------------
\* String primitives of the JavaScript runtime used by the code
\* ------------------------------------------------------------------------
CharAt(s, i) == SubSeq(s, i, i)

UpperAlphabet == "ABCDEFGHIJKLMNOPQRSTUVWXYZ"

LowerAlphabet == "abcdefghijklmnopqrstuvwxyz"

DigitAlphabet == "0123456789"

DigitChars == {CharAt(DigitAlphabet, i) : i \in 1..10}

IsDigit(c) == c \in DigitChars

SpaceChars == {" ", "\t", "\n", "\r"}

IsSpace(c) == c \in SpaceChars

LineTerminators == {"\n", "\r"}

IsLineTerminator(c) == c \in LineTerminators

LowerMap ==
  [c \in {CharAt(UpperAlphabet, i) : i \in 1..26} |->
     CharAt(LowerAlphabet, CHOOSE i \in 1..26 : CharAt(UpperAlphabet, i) = c)]

LowerChar(c) == IF c \in DOMAIN LowerMap THEN LowerMap[c] ELSE c

RECURSIVE toLowerCase(_)
toLowerCase(s) ==
  IF s = "" THEN "" ELSE LowerChar(Head(s)) \o toLowerCase(Tail(s))

RECURSIVE trimStart(_)
trimStart(s) ==
  IF s # "" /\ IsSpace(Head(s)) THEN trimStart(Tail(s)) ELSE s

RECURSIVE trimEnd(_)
trimEnd(s) ==
  IF s # "" /\ IsSpace(CharAt(s, Len(s)))
    THEN trimEnd(SubSeq(s, 1, Len(s) - 1))
    ELSE s

trim(s) == trimEnd(trimStart(s))

slice(s, n) == SubSeq(s, n + 1, Len(s))

startsWith(s, prefix) ==
  Len(s) >= Len(prefix) /\ SubSeq(s, 1, Len(prefix)) = prefix

MatchesAt(s, i, sub) ==
  i >= 1 /\ i + Len(sub) - 1 <= Len(s) /\ SubSeq(s, i, i + Len(sub) - 1) = sub

includes(s, sub) == \E i \in 1..(Len(s) + 1) : MatchesAt(s, i, sub)

\* the least index at which the Boolean sequence hits is TRUE, 0 if none
FirstIndex(hits) ==
  IF \E i \in DOMAIN hits : hits[i]
    THEN CHOOSE i \in DOMAIN hits : hits[i] /\ \A k \in 1..(i - 1) : ~hits[k]
    ELSE 0

\* index of the first occurrence of sub in s, 0 if none
IndexOf(s, sub) == FirstIndex([i \in 1..(Len(s) + 1) |-> MatchesAt(s, i, sub)])

\* String.prototype.split(sep): the pieces between the occurrences of sep
RECURSIVE split(_, _)
split(s, sep) ==
  LET i == IndexOf(s, sep)
  IN IF i = 0 THEN <<s>>
     ELSE <<SubSeq(s, 1, i - 1)>> \o split(SubSeq(s, i + Len(sep), Len(s)), sep)

\* last index of the maximal run of characters that starts at i and is
\* made of the characters in chars (inside) or of those not in chars
\* (~inside); i - 1 when the run is empty
RunEnd(s, i, chars, inside) ==
  (CHOOSE j \in i..(Len(s) + 1) :
     /\ j = Len(s) + 1 \/ ((CharAt(s, j) \in chars) # inside)
     /\ \A k \in i..(j - 1) : (CharAt(s, k) \in chars) = inside) - 1

DigitValue(c) == CHOOSE d \in 0..9 : CharAt(DigitAlphabet, d + 1) = c

RECURSIVE DecimalValue(_)
DecimalValue(s) ==
  IF s = "" THEN 0
  ELSE 10 * DecimalValue(SubSeq(s, 1, Len(s) - 1)) + DigitValue(CharAt(s, Len(s)))

IsDigits(s) == s # "" /\ \A i \in 1..Len(s) : IsDigit(CharAt(s, i))

\* Number(string) for the literals the model uses: surrounding white space
\* is ignored, "" is 0, an optionally signed decimal integer is its value,
\* and anything else ("Infinity", text) is not a finite number.
Number(s) ==
  LET t == trim(s)
      signed == t # "" /\ Head(t) \in {"+", "-"}
      digits == IF signed THEN Tail(t) ELSE t
  IN IF t = "" THEN [finite |-> TRUE, value |-> 0]
     ELSE IF IsDigits(digits)
       THEN [finite |-> TRUE,
             value |-> IF signed /\ Head(t) = "-"
                         THEN 0 - DecimalValue(digits) ELSE DecimalValue(digits)]
       ELSE [finite |-> FALSE, value |-> 0]

Abs(n) == IF n < 0 THEN 0 - n ELSE n

\* ------------------------------------------------------------------------
\* JSON values: an object is a function from its keys to strings, except
\* that the keys "event" and "item" hold nested objects.
\* ------------------------------------------------------------------------
EmptyObject == [k \in {} |-> ""]

NestedKeys == {"event", "item"}

KeyOrder ==
  <<"type", "challenge", "event", "channel_type", "subtype", "reaction",
    "item", "channel", "ts", "thread_ts", "text", "user">>

\* String(obj.key ?? "")
StringOr(obj, key) == IF key \in DOMAIN obj THEN obj[key] ELSE ""

\* (obj.key ?? {})
ObjectOr(obj, key) == IF key \in DOMAIN obj THEN obj[key] ELSE EmptyObject

\* obj.key === value
FieldIs(obj, key, value) == key \in DOMAIN obj /\ obj[key] = value

Quote(s) == "\"" \o s \o "\""

RECURSIVE JSONStringify(_)
RECURSIVE StringifyMembers(_, _, _)
StringifyMembers(obj, k, first) ==
  IF k > Len(KeyOrder) THEN ""
  ELSE LET key == KeyOrder[k]
       IN IF key \notin DOMAIN obj THEN StringifyMembers(obj, k + 1, first)
          ELSE (IF first THEN "" ELSE ",")
               \o Quote(key) \o ":"
               \o (IF key \in NestedKeys THEN JSONStringify(obj[key])
                                         ELSE Quote(obj[key]))
               \o StringifyMembers(obj, k + 1, FALSE)

JSONStringify(obj) == "{" \o StringifyMembers(obj, 1, TRUE) \o "}"

\* ------------------------------------------------------------------------
\* Request Authenticator
\* ------------------------------------------------------------------------
\* crypto.createHmac("sha256", key).update(message).digest("hex"): an ideal
\* keyed hash, one distinct digest per (key, message)
HmacSha256Hex(key, message) == "hmac<" \o key \o ">(" \o message \o ")"

ReplayWindow == 60 * 5

\* crypto.timingSafeEqual throws on buffers of different length
timingSafeEqual(a, b) ==
  IF Len(a) # Len(b) THEN [threw |-> TRUE, value |-> FALSE]
  ELSE [threw |-> FALSE, value |-> (a = b)]

SlackSignatureFor(rawBody, timestamp, signingSecret) ==
  "v0=" \o HmacSha256Hex(signingSecret, "v0:" \o timestamp \o ":" \o rawBody)

\* (mutation) only old timestamps are refused
OutsideWindowPastOnly(now, ts) == now - ts > ReplayWindow

\* Math.abs(now - ts) > 60 * 5
OutsideWindow(now, ts) == Abs(now - ts) > ReplayWindow

\* now is Math.floor(Date.now() / 1000)
verifySlackSignature(rawBody, signature, timestamp, signingSecret, now) ==
  IF signature = "" \/ timestamp = "" THEN [threw |-> FALSE, value |-> FALSE]
  ELSE LET ts == Number(timestamp)
       IN IF ~ts.finite \/ OutsideWindow(now, ts.value)
            THEN [threw |-> FALSE, value |-> FALSE]
            ELSE LET expected == SlackSignatureFor(rawBody, timestamp, signingSecret)
                 IN IF Len(expected) # Len(signature)
                      THEN [threw |-> FALSE, value |-> FALSE]
                      ELSE timingSafeEqual(expected, signature)

\* ------------------------------------------------------------------------
\* QA Context Resolver
\* ------------------------------------------------------------------------
Undefined == [defined |-> FALSE, value |-> ""]

Defined(s) == [defined |-> TRUE, value |-> s]

NullQa == [null |-> TRUE]

\* text.match(/PR #(\d+)/i): the digits of the first match, "" if none
PrMatch(text, lt) ==
  LET i == FirstIndex([k \in 1..Len(text) |->
                         MatchesAt(lt, k, "pr #") /\ k + 4 <= Len(text)
                         /\ IsDigit(CharAt(text, k + 4))])
  IN IF i = 0 THEN "" ELSE SubSeq(text, i + 4, RunEnd(text, i + 4, DigitChars, TRUE))

UrlPrefix == "https://github.com/"

\* text.match(/https:\/\/github\.com\/([^/]+)\/([^/]+)\/pull\/(\d+)/i)
NoUrlMatch == [matched |-> FALSE, all |-> "", owner |-> "", repo |-> ""]

PrUrlMatchAt(text, lt, i) ==
  LET o1 == i + Len(UrlPrefix)
      o2 == RunEnd(text, o1, {"/"}, FALSE)
      r1 == o2 + 2
      r2 == RunEnd(text, r1, {"/"}, FALSE)
      d1 == r2 + 7
  IN IF MatchesAt(lt, i, UrlPrefix) /\ o2 >= o1 /\ o2 < Len(text)
        /\ r2 >= r1 /\ MatchesAt(lt, r2 + 1, "/pull/")
        /\ d1 <= Len(text) /\ IsDigit(CharAt(text, d1))
       THEN [matched |-> TRUE,
             all |-> SubSeq(text, i, RunEnd(text, d1, DigitChars, TRUE)),
             owner |-> SubSeq(text, o1, o2),
             repo |-> SubSeq(text, r1, r2)]
       ELSE NoUrlMatch

PrUrlMatch(text, lt) ==
  LET i == FirstIndex([k \in 1..Len(text) |-> PrUrlMatchAt(text, lt, k).matched])
  IN IF i = 0 THEN NoUrlMatch ELSE PrUrlMatchAt(text, lt, i)

\* text.match(new RegExp('${label}:\\s*(.+)$', "im")) at start position i:
\* the start of the capture group, 0 when the pattern does not match at i
\* (\s* is greedy and gives characters back until (.+) can start)
ValueStartAt(text, lt, key, i) ==
  LET p == i + Len(key)
      w == RunEnd(text, p, SpaceChars, TRUE)
      Starts(q) == q <= Len(text) /\ ~IsLineTerminator(CharAt(text, q))
  IN IF MatchesAt(lt, i, key) /\ \E q \in p..(w + 1) : Starts(q)
       THEN CHOOSE q \in p..(w + 1) : Starts(q) /\ \A k \in (q + 1)..(w + 1) : ~Starts(k)
       ELSE 0

valueOf(text, lt, label) ==
  LET key == toLowerCase(label) \o ":"
      i == FirstIndex([k \in 1..Len(text) |-> ValueStartAt(text, lt, key, k) # 0])
  IN IF i = 0 THEN Undefined
     ELSE LET q == ValueStartAt(text, lt, key, i)
          IN Defined(trim(SubSeq(text, q, RunEnd(text, q, LineTerminators, FALSE))))

\* a ?? b
Coalesce(a, b) == IF a.defined THEN a ELSE Defined(b)

extractQaContext(text, defaultRepository) ==
  LET lt == toLowerCase(text)
      prDigits == PrMatch(text, lt)
      prNumber == Number(prDigits)
      prUrlMatch == PrUrlMatch(text, lt)
      parts == split(defaultRepository, "/")
      context(owner, repo) ==
        [null |-> FALSE,
         app |-> Coalesce(valueOf(text, lt, "App"), "unknown").value,
         prNumber |-> prNumber.value,
         prUrl |-> IF prUrlMatch.matched THEN Defined(prUrlMatch.all) ELSE Undefined,
         owner |-> owner,
         repo |-> repo,
         commit |-> valueOf(text, lt, "Commit"),
         channel |-> valueOf(text, lt, "Channel"),
         iosBuildId |-> valueOf(text, lt, "iOS Build ID"),
         androidBuildId |-> valueOf(text, lt, "Android Build ID"),
         iosUpdateGroupId |-> valueOf(text, lt, "iOS Update Group ID"),
         androidUpdateGroupId |-> valueOf(text, lt, "Android Update Group ID"),
         runtimeIos |-> valueOf(text, lt, "Runtime iOS"),
         runtimeAndroid |-> valueOf(text, lt, "Runtime Android")]
  IN IF prDigits = "" THEN NullQa
     ELSE IF ~prNumber.finite THEN NullQa
     ELSE IF prUrlMatch.matched THEN context(prUrlMatch.owner, prUrlMatch.repo)
     ELSE IF includes(defaultRepository, "/") THEN context(parts[1], parts[2])
     ELSE NullQa

\* ------------------------------------------------------------------------
\* Outbound HTTP: the wrappers slackApi and githubApi applied to a response
\* ------------------------------------------------------------------------
\* response.ok
HttpOk(status) == status >= 200 /\ status <= 299

Returned(data) == [threw |-> FALSE, message |-> "", data |-> data]

Thrown(message, data) == [threw |-> TRUE, message |-> message, data |-> data]

\* a Slack response: transport is FALSE when fetch itself rejects; data is
\* the decoded JSON body {ok, error, messages, user}
NoSlackData == [ok |-> FALSE, error |-> "", messages |-> <<>>, user |-> EmptyObject]

slackApi(method, response) ==
  IF ~response.transport THEN Thrown("fetch failed", NoSlackData)
  ELSE IF ~HttpOk(response.status)
    THEN Thrown("Slack API " \o method \o " failed (" \o ToString(response.status) \o ")",
                NoSlackData)
  ELSE IF ~response.json THEN Thrown("Unexpected token < in JSON at position 0", NoSlackData)
  ELSE IF ~response.data.ok
    THEN Thrown("Slack API " \o method \o " error: "
                  \o (IF response.data.error = "" THEN "unknown" ELSE response.data.error),
                NoSlackData)
  ELSE Returned(response.data)

\* a GitHub response: json is FALSE when the body is not JSON; data is the
\* decoded body {message, number, html_url} (number 0 and "" when absent)
NoGithubData == [message |-> "", number |-> 0, html_url |-> ""]

StringifyGithubData(data) ==
  "{" \o (IF data.message = "" THEN "" ELSE Quote("message") \o ":" \o Quote(data.message))
      \o (IF data.number = 0 THEN ""
          ELSE (IF data.message = "" THEN "" ELSE ",")
               \o Quote("number") \o ":" \o ToString(data.number))
      \o "}"

githubApi(path, response) ==
  IF ~response.transport THEN Thrown("fetch failed", NoGithubData)
  ELSE IF response.status = 204 THEN Returned(NoGithubData)
  ELSE IF ~response.json THEN Thrown("Unexpected token < in JSON at position 0", NoGithubData)
  ELSE IF ~HttpOk(response.status)
    THEN Thrown("GitHub API " \o path \o " failed (" \o ToString(response.status) \o "): "
                  \o StringifyGithubData(response.data),
                NoGithubData)
  ELSE Returned(response.data)

\* encodeURIComponent on the characters label names are made of
EncodeChar(c) == IF c = ":" THEN "%3A" ELSE IF c = " " THEN "%20" ELSE c

RECURSIVE encodeURIComponent(_)
encodeURIComponent(s) ==
  IF s = "" THEN "" ELSE EncodeChar(Head(s)) \o encodeURIComponent(Tail(s))

IssuePath(qa) ==
  "/repos/" \o qa.owner \o "/" \o qa.repo \o "/issues/" \o ToString(qa.prNumber)

LabelsPath(qa) == IssuePath(qa) \o "/labels"

LabelPath(qa, name) == LabelsPath(qa) \o "/" \o encodeURIComponent(name)

CommentsPath(qa) == IssuePath(qa) \o "/comments"

IssuesPath(qa) == "/repos/" \o qa.owner \o "/" \o qa.repo \o "/issues"

addGithubLabels(qa, response) == githubApi(LabelsPath(qa), response)

\* (mutation) an absent label is an error like any other
removeGithubLabelStrict(qa, name, response) == githubApi(LabelPath(qa, name), response)

\* the catch clause: an error whose message includes "404" is swallowed
removeGithubLabel(qa, name, response) ==
  LET result == githubApi(LabelPath(qa, name), response)
  IN IF result.threw /\ includes(result.message, "404")
       THEN Returned(NoGithubData)
       ELSE result

createPrComment(qa, response) == githubApi(CommentsPath(qa), response)

\* (user.profile)?.display_name || user.name || userId
DisplayName(user, userId) ==
  LET profile == ObjectOr(user, "profile")
  IN IF StringOr(profile, "display_name") # "" THEN StringOr(profile, "display_name")
     ELSE IF StringOr(user, "name") # "" THEN StringOr(user, "name")
     ELSE userId

\* (mutation) a failed lookup names the actor "unknown"
resolveSlackUserUnknown(userId, response) ==
  LET result == slackApi("users.info", response)
  IN IF result.threw THEN "unknown" ELSE DisplayName(result.data.user, userId)

resolveSlackUser(userId, response) ==
  LET result == slackApi("users.info", response)
  IN IF result.threw THEN userId ELSE DisplayName(result.data.user, userId)

\* the parent message of fetchSlackParentMessage: null when there is none
fetchSlackParentMessage(response) ==
  LET result == slackApi("conversations.replies", response)
  IN IF result.threw THEN [threw |-> TRUE, message |-> result.message, null |-> TRUE, text |-> ""]
     ELSE IF result.data.messages = <<>>
       THEN [threw |-> FALSE, message |-> "", null |-> TRUE, text |-> ""]
       ELSE [threw |-> FALSE, message |-> "", null |-> FALSE,
             text |-> StringOr(result.data.messages[1], "text")]

RECURSIVE join(_, _)
join(lines, sep) ==
  IF lines = <<>> THEN ""
  ELSE IF Len(lines) = 1 THEN lines[1]
  ELSE lines[1] \o sep \o join(Tail(lines), sep)

\* Array.prototype.filter(Boolean) on strings: the empty string is dropped
filterBoolean(lines) == SelectSeq(lines, LAMBDA l : l # "")

OptionalLine(prefix, field) ==
  IF field.defined /\ field.value # "" THEN prefix \o field.value ELSE ""

\* ------------------------------------------------------------------------
\* Handler bodies: the awaited calls that remain, in program order
\* ------------------------------------------------------------------------
Call(fn, labels, text) == [fn |-> fn, labels |-> labels, text |-> text]

ApprovalReactions == {"white_check_mark", "heavy_check_mark", "check_mark"}

\* (mutation) qa:changes-requested is left on the pull request
ApprovalPlanKeepsLabel(qa, actor) ==
  << Call("removeGithubLabel", <<"qa:needed">>, ""),
     Call("addGithubLabels", <<"qa:approved">>, ""),
     Call("postSlackThreadMessage", <<>>,
          "QA approvato da @" \o actor
            \o ". Label 'qa:approved' applicata su PR #"
            \o ToString(qa.prNumber) \o ".") >>

\* handleReactionAdded, the approval branch
ApprovalPlan(qa, actor) ==
  << Call("removeGithubLabel", <<"qa:needed">>, ""),
     Call("removeGithubLabel", <<"qa:changes-requested">>, ""),
     Call("addGithubLabels", <<"qa:approved">>, ""),
     Call("postSlackThreadMessage", <<>>,
          "QA approvato da @" \o actor
            \o ". Label 'qa:approved' applicata su PR #"
            \o ToString(qa.prNumber) \o ".") >>

\* (mutation) the x branch also copies a comment to the pull request
ChangesRequestedPlanComments(actor) ==
  << Call("removeGithubLabel", <<"qa:approved">>, ""),
     Call("removeGithubLabel", <<"qa:needed">>, ""),
     Call("addGithubLabels", <<"qa:changes-requested">>, ""),
     Call("createPrComment", <<>>, "QA changes requested da @" \o actor),
     Call("postSlackThreadMessage", <<>>,
          join(<< "QA changes requested da @" \o actor \o ".",
                  "Rispondi in questo thread con: 'qa-feedback: <dettagli>'",
                  "Il bot copiera automaticamente il feedback nel PR." >>, "\n")) >>

\* (mutation) the x branch leaves qa:approved on the pull request
ChangesRequestedPlanKeepsApproved(actor) ==
  << Call("removeGithubLabel", <<"qa:needed">>, ""),
     Call("addGithubLabels", <<"qa:changes-requested">>, ""),
     Call("postSlackThreadMessage", <<>>,
          join(<< "QA changes requested da @" \o actor \o ".",
                  "Rispondi in questo thread con: 'qa-feedback: <dettagli>'",
                  "Il bot copiera automaticamente il feedback nel PR." >>, "\n")) >>

\* handleReactionAdded, the x branch
ChangesRequestedPlan(actor) ==
  << Call("removeGithubLabel", <<"qa:approved">>, ""),
     Call("removeGithubLabel", <<"qa:needed">>, ""),
     Call("addGithubLabels", <<"qa:changes-requested">>, ""),
     Call("postSlackThreadMessage", <<>>,
          join(<< "QA changes requested da @" \o actor \o ".",
                  "Rispondi in questo thread con: 'qa-feedback: <dettagli>'",
                  "Il bot copiera automaticamente il feedback nel PR." >>, "\n")) >>

\* (mutation) the bug reaction marks the pull request
BugReactionPlanLabels(actor) ==
  << Call("addGithubLabels", <<"qa:changes-requested">>, ""),
     Call("postSlackThreadMessage", <<>>,
          join(<< "Bug segnalato da @" \o actor \o ".",
                  "Rispondi in questo thread con: 'qa-bug: <descrizione bug>'",
                  "Il bot creera automaticamente una GitHub Issue con metadati artefatto." >>,
               "\n")) >>

\* handleReactionAdded, the bug branch
BugReactionPlan(actor) ==
  << Call("postSlackThreadMessage", <<>>,
          join(<< "Bug segnalato da @" \o actor \o ".",
                  "Rispondi in questo thread con: 'qa-bug: <descrizione bug>'",
                  "Il bot creera automaticamente una GitHub Issue con metadati artefatto." >>,
               "\n")) >>

\* handleReactionAdded after the actor is resolved
ReactionPlan(reaction, qa, actor) ==
  IF reaction \in ApprovalReactions THEN ApprovalPlan(qa, actor)
  ELSE IF reaction = "x" THEN ChangesRequestedPlan(actor)
  ELSE IF reaction = "bug" THEN BugReactionPlan(actor)
  ELSE << >>

FeedbackPrefix == "qa-feedback:"

BugPrefix == "qa-bug:"

\* (mutation) a command with an empty body is carried out like any other
MessagePlanEmptyBody(text, qa, actor) ==
  IF startsWith(toLowerCase(text), FeedbackPrefix)
    THEN LET feedback == trim(slice(text, Len(FeedbackPrefix)))
         IN << Call("removeGithubLabel", <<"qa:approved">>, ""),
               Call("removeGithubLabel", <<"qa:needed">>, ""),
               Call("addGithubLabels", <<"qa:changes-requested">>, ""),
               Call("createPrComment", <<>>,
                    join(<< "## QA feedback from Slack", "",
                            "Segnalato da: @" \o actor, "", feedback >>, "\n")),
               Call("postSlackThreadMessage", <<>>,
                    "Feedback copiato nel PR e label 'qa:changes-requested' applicata.") >>
  ELSE IF startsWith(toLowerCase(text), BugPrefix)
    THEN << Call("createBugIssue", <<>>, trim(slice(text, Len(BugPrefix)))) >>
  ELSE << >>

\* (mutation) the feedback is not copied to the pull request
MessagePlanWithoutComment(text, qa, actor) ==
  IF startsWith(toLowerCase(text), FeedbackPrefix)
    THEN LET feedback == trim(slice(text, Len(FeedbackPrefix)))
         IN IF feedback = "" THEN << >>
            ELSE << Call("removeGithubLabel", <<"qa:approved">>, ""),
                    Call("removeGithubLabel", <<"qa:needed">>, ""),
                    Call("addGithubLabels", <<"qa:changes-requested">>, ""),
                    Call("postSlackThreadMessage", <<>>,
                         "Feedback copiato nel PR e label 'qa:changes-requested' applicata.") >>
  ELSE IF startsWith(toLowerCase(text), BugPrefix)
    THEN LET bug == trim(slice(text, Len(BugPrefix)))
         IN IF bug = "" THEN << >>
            ELSE << Call("createBugIssue", <<>>, bug) >>
  ELSE << >>

\* handleChannelThreadMessage after the actor is resolved; text is trimmed
MessagePlan(text, qa, actor) ==
  IF startsWith(toLowerCase(text), FeedbackPrefix)
    THEN LET feedback == trim(slice(text, Len(FeedbackPrefix)))
         IN IF feedback = "" THEN << >>
            ELSE << Call("removeGithubLabel", <<"qa:approved">>, ""),
                    Call("removeGithubLabel", <<"qa:needed">>, ""),
                    Call("addGithubLabels", <<"qa:changes-requested">>, ""),
                    Call("createPrComment", <<>>,
                         join(<< "## QA feedback from Slack", "",
                                 "Segnalato da: @" \o actor, "", feedback >>, "\n")),
                    Call("postSlackThreadMessage", <<>>,
                         "Feedback copiato nel PR e label 'qa:changes-requested' applicata.") >>
  ELSE IF startsWith(toLowerCase(text), BugPrefix)
    THEN LET bug == trim(slice(text, Len(BugPrefix)))
         IN IF bug = "" THEN << >>
            ELSE << Call("createBugIssue", <<>>, bug) >>
  ELSE << >>

\* createBugIssue: title and body of the issue
BugIssueTitle(qa) ==
  "QA bug - PR #" \o ToString(qa.prNumber) \o " (" \o qa.app \o ")"

BugIssueBody(qa, actor, bugDescription) ==
  join(filterBoolean(<<
    "Segnalato da: @" \o actor,
    "PR: #" \o ToString(qa.prNumber),
    OptionalLine("PR URL: ", qa.prUrl),
    OptionalLine("Commit: ", qa.commit),
    OptionalLine("Channel: ", qa.channel),
    OptionalLine("iOS Build ID: ", qa.iosBuildId),
    OptionalLine("Android Build ID: ", qa.androidBuildId),
    OptionalLine("iOS Update Group ID: ", qa.iosUpdateGroupId),
    OptionalLine("Android Update Group ID: ", qa.androidUpdateGroupId),
    OptionalLine("Runtime iOS: ", qa.runtimeIos),
    OptionalLine("Runtime Android: ", qa.runtimeAndroid),
    "",
    "Descrizione:",
    bugDescription >>), "\n")

\* createBugIssue after the issue is created: the cross-link comment, made
\* only when the response carries a positive issue number, and the
\* confirmation that handleChannelThreadMessage then posts
BugFollowUp(issue, bugDescription) ==
  (IF issue.number > 0
     THEN << Call("createPrComment", <<>>,
                  join(<< "## QA bug creato da Slack", "",
                          "Issue: " \o issue.html_url, "", bugDescription >>, "\n")) >>
     ELSE << >>)
  \o << Call("postSlackThreadMessage", <<>>, "Issue creata: " \o issue.html_url) >>

\* ------------------------------------------------------------------------
\* Sample inputs: deliveries, configurations and downstream responses
\* ------------------------------------------------------------------------
MaxDeliveries == 1

Procs == {"d1", "d2"}

\* the secret the chat platform signs its deliveries with
PlatformSecret == "s3cr3t"

Clock == {1000}

Configs ==
  {[SLACK_BOT_TOKEN |-> "xoxb-1", SLACK_SIGNING_SECRET |-> PlatformSecret,
    GITHUB_TOKEN |-> "ghp_1", DEFAULT_GITHUB_REPOSITORY |-> d] :
      d \in {"acme/app", "", "acme/"}}
  \cup
  {[SLACK_BOT_TOKEN |-> "", SLACK_SIGNING_SECRET |-> PlatformSecret,
    GITHUB_TOKEN |-> "ghp_1", DEFAULT_GITHUB_REPOSITORY |-> "acme/app"],
   [SLACK_BOT_TOKEN |-> "xoxb-1", SLACK_SIGNING_SECRET |-> "",
    GITHUB_TOKEN |-> "ghp_1", DEFAULT_GITHUB_REPOSITORY |-> "acme/app"],
   [SLACK_BOT_TOKEN |-> "xoxb-1", SLACK_SIGNING_SECRET |-> PlatformSecret,
    GITHUB_TOKEN |-> "", DEFAULT_GITHUB_REPOSITORY |-> "acme/app"]}

ReactionEvent(reaction) ==
  [type |-> "reaction_added", reaction |-> reaction,
   item |-> [channel |-> "C1", ts |-> "1700.1"], user |-> "U1"]

MessageEvent(text) ==
  [type |-> "message", channel_type |-> "channel", channel |-> "C1",
   thread_ts |-> "1700.1", text |-> text, user |-> "U1"]

RoutableEvents ==
  {ReactionEvent(r) : r \in ApprovalReactions \cup {"x", "bug", "eyes"}}
  \cup {[type |-> "reaction_added", reaction |-> "white_check_mark",
         item |-> [channel |-> "C1", ts |-> "1700.1"]]}
  \cup {MessageEvent(t) : t \in {"qa-feedback: fix the login", "QA-Feedback:   ",
                                 " qa-bug: crashes on launch ", "qa-bug:", "hello team"}}

IgnoredEvents ==
  {[type |-> "reaction_added", reaction |-> "white_check_mark",
    item |-> [ts |-> "1700.1"], user |-> "U1"],
   [type |-> "reaction_added", reaction |-> "white_check_mark",
    item |-> [channel |-> "C1"], user |-> "U1"],
   [type |-> "reaction_added", reaction |-> "white_check_mark", user |-> "U1"],
   [type |-> "reaction_added", item |-> [channel |-> "C1", ts |-> "1700.1"], user |-> "U1"],
   [type |-> "message", channel_type |-> "channel", subtype |-> "message_changed",
    channel |-> "C1", thread_ts |-> "1700.1", text |-> "qa-feedback: fix the login",
    user |-> "U1"],
   [type |-> "message", channel_type |-> "channel", channel |-> "C1",
    text |-> "qa-feedback: fix the login", user |-> "U1"],
   [type |-> "message", channel_type |-> "channel",
    thread_ts |-> "1700.1", text |-> "qa-feedback: fix the login", user |-> "U1"],
   [type |-> "message", channel_type |-> "channel", channel |-> "C1",
    thread_ts |-> "1700.1", user |-> "U1"],
   [type |-> "message", channel_type |-> "channel", channel |-> "C1",
    thread_ts |-> "1700.1", text |-> "   ", user |-> "U1"],
   [type |-> "message", channel_type |-> "channel", channel |-> "C1",
    thread_ts |-> "1700.1", text |-> "qa-feedback: fix the login"],
   [type |-> "message", channel_type |-> "im", channel |-> "C1",
    thread_ts |-> "1700.1", text |-> "qa-feedback: fix the login", user |-> "U1"],
   [type |-> "message", channel |-> "C1",
    thread_ts |-> "1700.1", text |-> "qa-feedback: fix the login", user |-> "U1"],
   [type |-> "app_mention", channel |-> "C1", text |-> "qa-bug: x", user |-> "U1"]}

EventPayloads ==
  {[type |-> "event_callback", event |-> e] : e \in RoutableEvents \cup IgnoredEvents}

HandshakePayloads ==
  {[type |-> "url_verification", challenge |-> "abc"], [type |-> "url_verification"]}

OtherPayloads ==
  {[type |-> "event_callback"], [type |-> "app_rate_limited"], EmptyObject}

SamplePayloads == EventPayloads \cup HandshakePayloads \cup OtherPayloads

\* JSON.parse: white space around the value is ignored, "null" is null, the
\* text of a sample object is that object, anything else is a SyntaxError
ParseTable ==
  [raw \in {JSONStringify(v) : v \in SamplePayloads} |->
     CHOOSE v \in SamplePayloads : JSONStringify(v) = raw]

JSONParse(raw) ==
  LET t == trim(raw)
  IN IF t = "null" THEN [threw |-> FALSE, null |-> TRUE, value |-> EmptyObject]
     ELSE IF t \in DOMAIN ParseTable
       THEN [threw |-> FALSE, null |-> FALSE, value |-> ParseTable[t]]
       ELSE [threw |-> TRUE, null |-> FALSE, value |-> EmptyObject]

ApprovePayload == [type |-> "event_callback", event |-> ReactionEvent("white_check_mark")]

\* a routed reaction that no branch of the reaction handler acts on
IgnoredReactionPayload == [type |-> "event_callback", event |-> ReactionEvent("eyes")]

\* what the sender of a delivery may put in the two signature headers
TimestampHeaders ==
  {<< >>, <<"abc">>, <<"Infinity">>, <<"699">>, <<"700">>, <<"1000">>, <<"1300">>,
   <<"1301">>}

ReplaceLast(s, c) == SubSeq(s, 1, Len(s) - 1) \o c

SignatureHeaders(raw, timestamp) ==
  LET good == SlackSignatureFor(raw, timestamp, PlatformSecret)
  IN {<< >>,
      <<good>>,
      <<good, "v0=other">>,
      <<SlackSignatureFor(raw, timestamp, "s3cr3T")>>,
      <<SlackSignatureFor(ReplaceLast(raw, "]"), timestamp, PlatformSecret)>>,
      <<SlackSignatureFor(raw, "1000", PlatformSecret)>>,
      <<ReplaceLast(good, "(")>>,
      <<"v0=deadbeef">>}

Request(method, kind, raw, object, chunks, signature, timestamp) ==
  [method |-> method, bodyKind |-> kind, bodyString |-> raw, bodyObject |-> object,
   chunks |-> chunks,
   headers |-> [signature |-> signature, timestamp |-> timestamp]]

Streamed(method, raw, signature, timestamp) ==
  Request(method, "stream", "", EmptyObject, <<raw>>, signature, timestamp)

Signed(raw) ==
  Streamed("POST", raw, <<SlackSignatureFor(raw, "1000", PlatformSecret)>>, <<"1000">>)

BoundaryBodies ==
  {"{oops", "null", ""} \cup
  {JSONStringify(v) :
     v \in HandshakePayloads \cup {IgnoredReactionPayload, [type |-> "app_rate_limited"]}}

NonPostRequests ==
  {Streamed(m, JSONStringify(ApprovePayload), sig, <<"1000">>) :
     m \in {"GET", "PUT"},
     sig \in {<< >>, <<SlackSignatureFor(JSONStringify(ApprovePayload), "1000", PlatformSecret)>>}}

BoundaryRequests ==
  UNION {UNION {{Streamed("POST", raw, sig, <<t>>) : sig \in SignatureHeaders(raw, t)} :
                  t \in {"abc", "Infinity", "699", "700", "1000", "1300", "1301"}}
           \cup {Streamed("POST", raw, sig, << >>) : sig \in SignatureHeaders(raw, "")} :
         raw \in BoundaryBodies}

EventRequests == {Signed(JSONStringify(v)) : v \in EventPayloads \cup OtherPayloads}

\* the same delivery as the framework may hand it over: body already read
\* as a string, body already parsed, body streamed in two chunks
BodyKindRequests ==
  LET payload == IgnoredReactionPayload
      raw == JSONStringify(payload)
      sig == <<SlackSignatureFor(raw, "1000", PlatformSecret)>>
  IN {Request("POST", "string", raw, EmptyObject, << >>, sig, <<"1000">>),
      Request("POST", "object", "", payload, << >>, sig, <<"1000">>),
      Request("POST", "stream", "", EmptyObject,
              <<SubSeq(raw, 1, 10), SubSeq(raw, 11, Len(raw))>>, sig, <<"1000">>)}

Requests == NonPostRequests \cup BoundaryRequests \cup EventRequests \cup BodyKindRequests

\* the deliveries of the QA workflow: an approval, a rejection, a feedback
\* reply and a bug report on one thread
WorkflowEvents ==
  {ReactionEvent("white_check_mark"), ReactionEvent("x"),
   MessageEvent("qa-feedback: fix the login"), MessageEvent(" qa-bug: crashes on launch ")}

WorkflowRequests ==
  {Signed(JSONStringify([type |-> "event_callback", event |-> e])) : e \in WorkflowEvents}

\* scenario "any": every sample delivery, every downstream answer;
\* scenarios "race" and "sequence": the workflow deliveries on one thread,
\* and no downstream call fails
RequestsOf(s) == IF s = "any" THEN Requests ELSE WorkflowRequests

ParentTexts ==
  {"QA build ready PR #42 https://github.com/acme/app/pull/42\nApp: mobile\nCommit: abc123",
   "PR #7\nApp: mobile",
   "Retest PR #404 https://github.com/acme/app/pull/404",
   "no PR reference here"}

WorkflowParent == "QA build ready PR #42 https://github.com/acme/app/pull/42\nApp: mobile\nCommit: abc123"

SlackOk(data) == [transport |-> TRUE, status |-> 200, json |-> TRUE, data |-> data]

SlackData(messages, user) ==
  [ok |-> TRUE, error |-> "", messages |-> messages, user |-> user]

SlackFailures ==
  {[transport |-> FALSE, status |-> 0, json |-> FALSE, data |-> NoSlackData],
   [transport |-> TRUE, status |-> 503, json |-> FALSE, data |-> NoSlackData],
   [transport |-> TRUE, status |-> 200, json |-> TRUE,
    data |-> [ok |-> FALSE, error |-> "not_found", messages |-> <<>>, user |-> EmptyObject]]}

RepliesResponses ==
  {SlackOk(SlackData(<<[text |-> t]>>, EmptyObject)) : t \in ParentTexts \cup {""}}
  \cup {SlackOk(SlackData(<<>>, EmptyObject))}
  \cup SlackFailures

UsersInfoResponses ==
  {SlackOk(SlackData(<<>>, u)) :
     u \in {[profile |-> [display_name |-> "Ada"], name |-> "ada"], EmptyObject}}
  \cup SlackFailures
  \cup {[transport |-> TRUE, status |-> 200, json |-> FALSE, data |-> NoSlackData]}

PostMessageResponses ==
  {SlackOk(SlackData(<<>>, EmptyObject)),
   [transport |-> TRUE, status |-> 503, json |-> FALSE, data |-> NoSlackData]}

GithubResponse(status, message) ==
  [transport |-> TRUE, status |-> status, json |-> TRUE,
   data |-> [message |-> message, number |-> 0, html_url |-> ""]]

GithubNetworkFailure ==
  [transport |-> FALSE, status |-> 0, json |-> FALSE, data |-> NoGithubData]

GithubBadGateway ==
  [transport |-> TRUE, status |-> 502, json |-> FALSE, data |-> NoGithubData]

GithubServerError == GithubResponse(500, "Server Error")

GithubNotFound == GithubResponse(404, "Label does not exist")

\* DELETE .../labels/{name}: the tracker answers 200 when the issue carries
\* the label and 404 when it does not, or fails
DeleteLabelResponses(present) ==
  {IF present THEN GithubResponse(200, "") ELSE GithubNotFound,
   GithubServerError, GithubResponse(500, "upstream returned 404"),
   GithubBadGateway, GithubNetworkFailure}

AddLabelsResponses == {GithubResponse(200, ""), GithubServerError, GithubNetworkFailure}

CreateCommentResponses == {GithubResponse(201, ""), GithubServerError}

CreateIssueResponses ==
  {[transport |-> TRUE, status |-> 201, json |-> TRUE,
    data |-> [message |-> "", number |-> 101,
              html_url |-> "https://github.com/acme/app/issues/101"]],
   GithubResponse(201, ""),
   GithubServerError}

\* the answers a scenario allows: all of them, or those of a call that does
\* not fail (for a DELETE, 404 says the label was absent)
SlackAnswers(s, responses) ==
  IF s = "any" THEN responses
  ELSE {r \in responses : r.transport /\ HttpOk(r.status) /\ r.json /\ r.data.ok}

RepliesAnswers(s) ==
  IF s = "any" THEN RepliesResponses
  ELSE {SlackOk(SlackData(<<[text |-> WorkflowParent]>>, EmptyObject))}

GithubAnswers(s, responses) ==
  IF s = "any" THEN responses
  ELSE {r \in responses : r.transport /\ r.json /\ (HttpOk(r.status) \/ r = GithubNotFound)}

QaLabels == {"qa:needed", "qa:approved", "qa:changes-requested"}

\* a pull request that carries at most one QA label
WorkflowLabelSets == {{}} \cup {{l} : l \in QaLabels}

\* deliveries handled one after the other in scenario "sequence"
MaxRuns == 2

InitialLabelSets == {{"qa:needed"}, {"qa:approved", "qa:needed"}}

\* the issues the sample threads can resolve to
SampleIssues ==
  {IssuePath(extractQaContext(t, c.DEFAULT_GITHUB_REPOSITORY)) :
     <<t, c>> \in {<<t, c>> \in ParentTexts \X Configs :
                     ~extractQaContext(t, c.DEFAULT_GITHUB_REPOSITORY).null}}

\* ------------------------------------------------------------------------
\* The request handler up to its first awaited downstream call
\* ------------------------------------------------------------------------
readRawBody(r) ==
  IF r.bodyKind = "string" THEN r.bodyString
  ELSE IF r.bodyKind = "object" THEN JSONStringify(r.bodyObject)
  ELSE join(r.chunks, "")

header(r, name) ==
  LET value == r.headers[name]
  IN IF value = << >> THEN "" ELSE value[1]

NoResponse == [sent |-> FALSE, statusCode |-> 0, body |-> "", contentType |-> ""]

Response(statusCode, body, contentType) ==
  [sent |-> TRUE, statusCode |-> statusCode, body |-> body, contentType |-> contentType]

EmptyFrame ==
  [kind |-> "", reaction |-> "", channel |-> "", ts |-> "", slackUserId |-> "",
   text |-> "", parent |-> "", qa |-> NullQa, actor |-> ""]

\* handleReactionAdded up to fetchSlackParentMessage
handleReactionAdded(event) ==
  LET item == ObjectOr(event, "item")
      frame == [EmptyFrame EXCEPT !.kind = "reaction",
                                  !.reaction = StringOr(event, "reaction"),
                                  !.channel = StringOr(item, "channel"),
                                  !.ts = StringOr(item, "ts"),
                                  !.slackUserId = StringOr(event, "user")]
  IN IF frame.channel = "" \/ frame.ts = "" \/ frame.reaction = ""
       THEN [frame |-> frame, todo |-> << >>]
       ELSE [frame |-> frame, todo |-> << Call("fetchSlackParentMessage", <<>>, "") >>]

\* (mutation) the subtype of a message is not looked at
HasSubtypeIgnored(event) == FALSE

HasSubtype(event) == StringOr(event, "subtype") # ""

\* handleChannelThreadMessage up to fetchSlackParentMessage
handleChannelThreadMessage(event) ==
  LET frame == [EmptyFrame EXCEPT !.kind = "message",
                                  !.ts = StringOr(event, "thread_ts"),
                                  !.channel = StringOr(event, "channel"),
                                  !.text = trim(StringOr(event, "text")),
                                  !.slackUserId = StringOr(event, "user")]
  IN IF HasSubtype(event) THEN [frame |-> EmptyFrame, todo |-> << >>]
     ELSE IF frame.ts = "" \/ frame.channel = "" \/ frame.text = "" \/ frame.slackUserId = ""
       THEN [frame |-> frame, todo |-> << >>]
       ELSE [frame |-> frame, todo |-> << Call("fetchSlackParentMessage", <<>>, "") >>]

\* the dispatcher, after the acknowledgment
dispatch(payload) ==
  IF ~FieldIs(payload, "type", "event_callback") THEN [frame |-> EmptyFrame, todo |-> << >>]
  ELSE IF "event" \notin DOMAIN payload THEN [frame |-> EmptyFrame, todo |-> << >>]
  ELSE LET event == payload["event"]
       IN IF FieldIs(event, "type", "reaction_added") THEN handleReactionAdded(event)
          ELSE IF FieldIs(event, "type", "message") /\ FieldIs(event, "channel_type", "channel")
            THEN handleChannelThreadMessage(event)
          ELSE [frame |-> EmptyFrame, todo |-> << >>]

IsUrlVerification(payload) == FieldIs(payload, "type", "url_verification")

\* String(payload.challenge ?? "")
ChallengeBody(payload) == StringOr(payload, "challenge")

MissingSecrets(cfg) ==
  cfg.SLACK_BOT_TOKEN = "" \/ cfg.SLACK_SIGNING_SECRET = "" \/ cfg.GITHUB_TOKEN = ""

Ended(res, outcome) ==
  [res |-> res, outcome |-> outcome, frame |-> EmptyFrame, todo |-> << >>]

\* (mutation) the acknowledgment is sent when the event handler is through
AcknowledgedAfterProcessing(payload) ==
  LET d == dispatch(payload)
  IN [res |-> IF d.todo = << >> THEN Response(200, "ok", "") ELSE NoResponse,
      outcome |-> IF d.todo = << >> THEN "returned" ELSE "none",
      frame |-> d.frame, todo |-> d.todo]

\* the acknowledgment, then the dispatcher
Acknowledged(payload) ==
  LET d == dispatch(payload)
  IN [res |-> Response(200, "ok", ""),
      outcome |-> IF d.todo = << >> THEN "returned" ELSE "none",
      frame |-> d.frame, todo |-> d.todo]

\* (mutation) the configuration check comes before the handshake
answerParsedConfigFirst(payload, rawBody, r, cfg, now) ==
  LET verified == verifySlackSignature(rawBody, header(r, "signature"),
                                       header(r, "timestamp"),
                                       cfg.SLACK_SIGNING_SECRET, now)
  IN IF MissingSecrets(cfg)
       THEN Ended(Response(500, "Missing required environment variables", ""), "returned")
     ELSE IF IsUrlVerification(payload)
       THEN Ended(Response(200, ChallengeBody(payload), "text/plain"), "returned")
     ELSE IF verified.threw THEN Ended(NoResponse, "rejected")
     ELSE IF ~verified.value THEN Ended(Response(401, "Invalid signature", ""), "returned")
     ELSE Acknowledged(payload)

\* handler once the body is parsed to an object: handshake, configuration
\* check, signature check, acknowledgment
answerParsed(payload, rawBody, r, cfg, now) ==
  LET verified == verifySlackSignature(rawBody, header(r, "signature"),
                                       header(r, "timestamp"),
                                       cfg.SLACK_SIGNING_SECRET, now)
  IN IF IsUrlVerification(payload)
       THEN Ended(Response(200, ChallengeBody(payload), "text/plain"), "returned")
     ELSE IF MissingSecrets(cfg)
       THEN Ended(Response(500, "Missing required environment variables", ""), "returned")
     ELSE IF verified.threw THEN Ended(NoResponse, "rejected")
     ELSE IF ~verified.value THEN Ended(Response(401, "Invalid signature", ""), "returned")
     ELSE Acknowledged(payload)

\* handler(req, res): the response it sends and what it goes on to do.
\* outcome "rejected" is an exception that leaves handler (no try block
\* around it); "none" means the handler is suspended at todo's first call.
handler(r, cfg, now) ==
  IF r.method # "POST" THEN Ended(Response(405, "Method Not Allowed", ""), "returned")
  ELSE LET rawBody == readRawBody(r)
           parsed == JSONParse(rawBody)
       IN IF parsed.threw THEN Ended(Response(400, "Invalid JSON payload", ""), "returned")
          ELSE IF parsed.null THEN Ended(NoResponse, "rejected")
          ELSE answerParsed(parsed.value, rawBody, r, cfg, now)

\* ------------------------------------------------------------------------
\* State
\* ------------------------------------------------------------------------
VARIABLES
  config,     \* the four module-level constants read from the environment
  clock,      \* the current time in seconds
  scenario,   \* which deliveries the environment sends
  slots,      \* deliveries each worker may still accept
  ghLabels,   \* tracker: the <<issue path, label>> pairs that are set
  pc,         \* per delivery: "idle", "handler", "running" or "done"
  req,        \* the request being handled
  res,        \* the HTTP response sent for it
  frame,      \* local variables of the event handler
  todo,       \* awaited calls still ahead of the handler, in program order
  calls,      \* downstream calls issued for the request, in order
  outcome,    \* "none", "returned", "caught" (dispatcher's catch) or "rejected"
  error,      \* message of the exception logged by the dispatcher
  history     \* scenarios "race" and "sequence": the labels at the start, then
              \* each finished delivery with the labels it left

vars ==
  <<config, clock, scenario, slots, ghLabels, pc, req, res, frame, todo, calls, outcome,
    error, history>>

envVars == <<config, clock, scenario>>

NoRequest == Request("", "stream", "", EmptyObject, << >>, << >>, << >>)

Init ==
  /\ config \in Configs
  /\ clock \in Clock
  /\ scenario = "any"
  /\ slots = [p \in Procs |-> IF p = "d1" THEN MaxDeliveries ELSE 0]
  /\ \E L \in InitialLabelSets : ghLabels = SampleIssues \X L
  /\ pc = [p \in Procs |-> "idle"]
  /\ req = [p \in Procs |-> NoRequest]
  /\ res = [p \in Procs |-> NoResponse]
  /\ frame = [p \in Procs |-> EmptyFrame]
  /\ todo = [p \in Procs |-> << >>]
  /\ calls = [p \in Procs |-> << >>]
  /\ outcome = [p \in Procs |-> "none"]
  /\ error = [p \in Procs |-> ""]
  /\ history = << >>

WorkflowConfig ==
  [SLACK_BOT_TOKEN |-> "xoxb-1", SLACK_SIGNING_SECRET |-> PlatformSecret,
   GITHUB_TOKEN |-> "ghp_1", DEFAULT_GITHUB_REPOSITORY |-> "acme/app"]

Finished(request, labels) == [req |-> request, labels |-> labels]

\* two deliveries that race, or up to MaxRuns deliveries one after the other
WorkflowInit ==
  /\ config = WorkflowConfig
  /\ clock \in Clock
  /\ \/ scenario = "race" /\ slots = [p \in Procs |-> 1]
     \/ scenario = "sequence" /\ slots = [p \in Procs |-> IF p = "d1" THEN MaxRuns ELSE 0]
  /\ \E L \in WorkflowLabelSets : ghLabels = SampleIssues \X L
  /\ pc = [p \in Procs |-> "idle"]
  /\ req = [p \in Procs |-> NoRequest]
  /\ res = [p \in Procs |-> NoResponse]
  /\ frame = [p \in Procs |-> EmptyFrame]
  /\ todo = [p \in Procs |-> << >>]
  /\ calls = [p \in Procs |-> << >>]
  /\ outcome = [p \in Procs |-> "none"]
  /\ error = [p \in Procs |-> ""]
  /\ history = << Finished(NoRequest, ghLabels) >>

\* ------------------------------------------------------------------------
\* Steps
\* ------------------------------------------------------------------------
\* a delivery arrives at a worker that is not busy
Receive(p) ==
  /\ pc[p] = "idle"
  /\ slots[p] > 0
  /\ \E r \in RequestsOf(scenario) : req' = [req EXCEPT ![p] = r]
  /\ slots' = [slots EXCEPT ![p] = @ - 1]
  /\ pc' = [pc EXCEPT ![p] = "handler"]
  /\ UNCHANGED <<envVars, history, ghLabels, res, frame, todo, calls, outcome, error>>

Handler(p) ==
  /\ pc[p] = "handler"
  /\ LET h == handler(req[p], config, clock)
     IN /\ res' = [res EXCEPT ![p] = h.res]
        /\ outcome' = [outcome EXCEPT ![p] = h.outcome]
        /\ frame' = [frame EXCEPT ![p] = h.frame]
        /\ todo' = [todo EXCEPT ![p] = h.todo]
        /\ pc' = [pc EXCEPT ![p] = IF h.outcome = "none" THEN "running" ELSE "done"]
  /\ UNCHANGED <<envVars, history, slots, ghLabels, req, calls, error>>

AtCall(p, fn) == pc[p] = "running" /\ todo[p] # << >> /\ Head(todo[p]).fn = fn

\* failed: the request of slackApi or githubApi threw; raised: the call threw
\* to the event handler
LogEntry(fn, method, url, body, arg, status, failed, raised) ==
  [fn |-> fn, method |-> method, url |-> url, body |-> body, arg |-> arg,
   status |-> status, failed |-> failed, raised |-> raised]

SlackUrl(method) == "https://slack.com/api/" \o method

GithubUrl(path) == "https://api.github.com" \o path

\* (mutation) a failed call is issued again
ResumeRetrying(p, entries, threw, message, rest) ==
  /\ calls' = [calls EXCEPT ![p] = @ \o entries]
  /\ todo' = [todo EXCEPT ![p] = IF threw THEN @ ELSE rest]
  /\ pc' = [pc EXCEPT ![p] = IF ~threw /\ rest = << >> THEN "done" ELSE "running"]
  /\ outcome' = [outcome EXCEPT ![p] =
                   IF ~threw /\ rest = << >> THEN "returned" ELSE "none"]
  /\ error' = [error EXCEPT ![p] = IF threw THEN message ELSE ""]

\* the handler returns (rest is empty), goes on to the calls in rest, or the
\* exception of a failed call reaches the catch of the dispatcher
Resume(p, entries, threw, message, rest) ==
  /\ calls' = [calls EXCEPT ![p] = @ \o entries]
  /\ todo' = [todo EXCEPT ![p] = IF threw THEN << >> ELSE rest]
  /\ pc' = [pc EXCEPT ![p] = IF threw \/ rest = << >> THEN "done" ELSE "running"]
  /\ outcome' = [outcome EXCEPT ![p] =
                   IF threw THEN "caught" ELSE IF rest = << >> THEN "returned" ELSE "none"]
  /\ error' = [error EXCEPT ![p] = IF threw THEN message ELSE ""]

FetchSlackParentMessage(p) ==
  /\ AtCall(p, "fetchSlackParentMessage")
  /\ \E response \in RepliesAnswers(scenario) :
       LET parent == fetchSlackParentMessage(response)
           qa == IF parent.null \/ parent.text = "" THEN NullQa
                 ELSE extractQaContext(parent.text, config.DEFAULT_GITHUB_REPOSITORY)
           entry == LogEntry("fetchSlackParentMessage", "POST",
                             SlackUrl("conversations.replies"),
                             "{channel:" \o frame[p].channel \o ",ts:" \o frame[p].ts
                               \o ",limit:1,inclusive:true}",
                             "", response.status, parent.threw, parent.threw)
       IN /\ frame' = [frame EXCEPT ![p].parent = parent.text, ![p].qa = qa]
          /\ Resume(p, <<entry>>, parent.threw, parent.message,
                    IF qa.null THEN << >> ELSE << Call("resolveSlackUser", <<>>, "") >>)
  /\ UNCHANGED <<envVars, history, slots, ghLabels, req, res>>

PlanFor(f, actor) ==
  IF f.kind = "reaction" THEN ReactionPlan(f.reaction, f.qa, actor)
  ELSE MessagePlan(f.text, f.qa, actor)

ResolveSlackUser(p) ==
  /\ AtCall(p, "resolveSlackUser")
  /\ IF frame[p].slackUserId = ""
       THEN /\ frame' = [frame EXCEPT ![p].actor = "unknown"]
            /\ Resume(p, << >>, FALSE, "", PlanFor(frame[p], "unknown"))
       ELSE \E response \in SlackAnswers(scenario, UsersInfoResponses) :
              LET actor == resolveSlackUser(frame[p].slackUserId, response)
                  entry == LogEntry("resolveSlackUser", "POST", SlackUrl("users.info"),
                                    "{user:" \o frame[p].slackUserId \o "}",
                                    "", response.status,
                                    slackApi("users.info", response).threw, FALSE)
              IN /\ frame' = [frame EXCEPT ![p].actor = actor]
                 /\ Resume(p, <<entry>>, FALSE, "", PlanFor(frame[p], actor))
  /\ UNCHANGED <<envVars, history, slots, ghLabels, req, res>>

RemoveGithubLabel(p) ==
  /\ AtCall(p, "removeGithubLabel")
  /\ LET qa == frame[p].qa
         name == Head(todo[p]).labels[1]
         present == <<IssuePath(qa), name>> \in ghLabels
     IN \E response \in GithubAnswers(scenario, DeleteLabelResponses(present)) :
          LET result == removeGithubLabel(qa, name, response)
              entry == LogEntry("removeGithubLabel", "DELETE",
                                GithubUrl(LabelPath(qa, name)), "", name,
                                response.status,
                                githubApi(LabelPath(qa, name), response).threw,
                                result.threw)
          IN /\ ghLabels' = IF response.transport /\ HttpOk(response.status)
                              THEN ghLabels \ {<<IssuePath(qa), name>>}
                              ELSE ghLabels
             /\ Resume(p, <<entry>>, result.threw, result.message, Tail(todo[p]))
  /\ UNCHANGED <<envVars, history, slots, req, res, frame>>

AddGithubLabels(p) ==
  /\ AtCall(p, "addGithubLabels")
  /\ LET qa == frame[p].qa
         labels == Head(todo[p]).labels
     IN \E response \in GithubAnswers(scenario, AddLabelsResponses) :
          LET result == addGithubLabels(qa, response)
              entry == LogEntry("addGithubLabels", "POST", GithubUrl(LabelsPath(qa)),
                                "{labels:[" \o join(labels, ",") \o "]}",
                                join(labels, ","), response.status, result.threw, result.threw)
          IN /\ ghLabels' = IF response.transport /\ HttpOk(response.status)
                              THEN ghLabels \cup {<<IssuePath(qa), labels[i]>> :
                                                    i \in 1..Len(labels)}
                              ELSE ghLabels
             /\ Resume(p, <<entry>>, result.threw, result.message, Tail(todo[p]))
  /\ UNCHANGED <<envVars, history, slots, req, res, frame>>

CreatePrComment(p) ==
  /\ AtCall(p, "createPrComment")
  /\ LET qa == frame[p].qa
         body == Head(todo[p]).text
     IN \E response \in GithubAnswers(scenario, CreateCommentResponses) :
          LET result == createPrComment(qa, response)
              entry == LogEntry("createPrComment", "POST", GithubUrl(CommentsPath(qa)),
                                "{body:" \o body \o "}", body,
                                response.status, result.threw, result.threw)
          IN Resume(p, <<entry>>, result.threw, result.message, Tail(todo[p]))
  /\ UNCHANGED <<envVars, history, slots, ghLabels, req, res, frame>>

\* createBugIssue: the POST that creates the issue
CreateBugIssue(p) ==
  /\ AtCall(p, "createBugIssue")
  /\ LET qa == frame[p].qa
         bug == Head(todo[p]).text
     IN \E response \in GithubAnswers(scenario, CreateIssueResponses) :
          LET result == githubApi(IssuesPath(qa), response)
              entry == LogEntry("createBugIssue", "POST", GithubUrl(IssuesPath(qa)),
                                "{title:" \o BugIssueTitle(qa)
                                  \o ",body:" \o BugIssueBody(qa, frame[p].actor, bug)
                                  \o ",labels:[bug,qa]}",
                                "bug,qa", response.status, result.threw, result.threw)
          IN Resume(p, <<entry>>, result.threw, result.message,
                    BugFollowUp(result.data, bug))
  /\ UNCHANGED <<envVars, history, slots, ghLabels, req, res, frame>>

PostSlackThreadMessage(p) ==
  /\ AtCall(p, "postSlackThreadMessage")
  /\ LET text == Head(todo[p]).text
     IN \E response \in SlackAnswers(scenario, PostMessageResponses) :
          LET result == slackApi("chat.postMessage", response)
              entry == LogEntry("postSlackThreadMessage", "POST",
                                SlackUrl("chat.postMessage"),
                                "{channel:" \o frame[p].channel \o ",thread_ts:"
                                  \o frame[p].ts \o ",text:" \o text \o "}",
                                text, response.status, result.threw, result.threw)
          IN Resume(p, <<entry>>, result.threw, result.message, Tail(todo[p]))
  /\ UNCHANGED <<envVars, history, slots, ghLabels, req, res, frame>>

\* the invocation is over: its request-scoped values are dropped
Complete(p) ==
  /\ pc[p] = "done"
  /\ pc' = [pc EXCEPT ![p] = "idle"]
  /\ req' = [req EXCEPT ![p] = NoRequest]
  /\ res' = [res EXCEPT ![p] = NoResponse]
  /\ frame' = [frame EXCEPT ![p] = EmptyFrame]
  /\ todo' = [todo EXCEPT ![p] = << >>]
  /\ calls' = [calls EXCEPT ![p] = << >>]
  /\ outcome' = [outcome EXCEPT ![p] = "none"]
  /\ error' = [error EXCEPT ![p] = ""]
  /\ history' = IF scenario = "any" THEN history
                ELSE Append(history, Finished(req[p], ghLabels))
  /\ UNCHANGED <<envVars, slots, ghLabels>>

Next ==
  \E p \in Procs :
    \/ Receive(p)
    \/ Handler(p)
    \/ FetchSlackParentMessage(p)
    \/ ResolveSlackUser(p)
    \/ RemoveGithubLabel(p)
    \/ AddGithubLabels(p)
    \/ CreatePrComment(p)
    \/ CreateBugIssue(p)
    \/ PostSlackThreadMessage(p)
    \/ Complete(p)

Spec == Init /\ [][Next]_vars

WorkflowSpec == WorkflowInit /\ [][Next]_vars

\* ------------------------------------------------------------------------
\* Properties
\* ------------------------------------------------------------------------
Ack == Response(200, "ok", "")

\* the handler has run for the delivery of worker p
Handled(p) == pc[p] \in {"running", "done"}

RawBodyOf(p) == readRawBody(req[p])

ParsedOf(p) == JSONParse(RawBodyOf(p))

PayloadOf(p) == ParsedOf(p).value

IsPost(p) == req[p].method = "POST"

Handshake(p) ==
  LET parsed == ParsedOf(p)
  IN IsPost(p) /\ ~parsed.threw /\ ~parsed.null
     /\ "type" \in DOMAIN parsed.value /\ parsed.value["type"] = "url_verification"

SecretsMissing ==
  config.SLACK_BOT_TOKEN = "" \/ config.SLACK_SIGNING_SECRET = "" \/ config.GITHUB_TOKEN = ""

\* the signature headers of the request are the platform's for this body
\* and this time
Genuine(p) ==
  LET signature == header(req[p], "signature")
      timestamp == header(req[p], "timestamp")
      ts == Number(timestamp)
  IN /\ signature # "" /\ timestamp # ""
     /\ ts.finite
     /\ clock - ts.value <= 300
     /\ ts.value - clock <= 300
     /\ signature = "v0=" \o HmacSha256Hex(config.SLACK_SIGNING_SECRET,
                                           "v0:" \o timestamp \o ":" \o RawBodyOf(p))

NoDownstream(p) == calls[p] = << >> /\ todo[p] = << >>

\* C1: a downstream call is issued or pending only for a request whose
\* response 200 "ok" has been sent, and that response is only sent for a
\* POST whose signature is valid.
C1_FastAckOrdering ==
  \A p \in Procs :
    /\ ~NoDownstream(p) => res[p] = Ack
    /\ res[p] = Ack => IsPost(p) /\ Genuine(p)

C1_Witness ==
  \E p \in Procs :
    /\ res[p] = Ack
    /\ Len(calls[p]) >= 3
    /\ calls[p][1].fn = "fetchSlackParentMessage"
    /\ calls[p][3].fn = "removeGithubLabel"

\* C2: a non-POST request is answered 405, a POST with unparseable JSON
\* 400, a non-handshake POST with a required secret missing 500, a
\* non-handshake POST with an invalid signature 401, each without any
\* downstream call.
C2_BoundaryErrors ==
  \A p \in Procs :
    Handled(p) =>
      /\ ~IsPost(p) => res[p].statusCode = 405 /\ NoDownstream(p)
      /\ IsPost(p) /\ ParsedOf(p).threw => res[p].statusCode = 400 /\ NoDownstream(p)
      /\ IsPost(p) /\ ~ParsedOf(p).threw /\ ~Handshake(p) /\ SecretsMissing
           => res[p].statusCode = 500 /\ NoDownstream(p)
      /\ IsPost(p) /\ ~ParsedOf(p).threw /\ ~Handshake(p) /\ ~SecretsMissing /\ ~Genuine(p)
           => res[p].statusCode = 401 /\ NoDownstream(p)

\* C3: a POST whose parsed body has type url_verification is answered 200
\* with the challenge as body, whatever the signature headers and the
\* configured secrets are, and makes no downstream call.
C3_HandshakeBypass ==
  \A p \in Procs :
    Handled(p) /\ Handshake(p) =>
      /\ res[p].sent /\ res[p].statusCode = 200
      /\ res[p].body = (IF "challenge" \in DOMAIN PayloadOf(p)
                          THEN PayloadOf(p)["challenge"] ELSE "")
      /\ NoDownstream(p)
      /\ outcome[p] = "returned"

C3_Witness ==
  \E p \in Procs :
    /\ Handled(p) /\ Handshake(p)
    /\ header(req[p], "signature") = ""
    /\ SecretsMissing
    /\ res[p].statusCode = 200 /\ res[p].body = "abc"

\* the request got as far as the signature check
ReachedSignatureCheck(p) ==
  LET parsed == ParsedOf(p)
  IN Handled(p) /\ IsPost(p) /\ ~SecretsMissing
     /\ ~parsed.threw /\ ~parsed.null /\ ~Handshake(p)

\* C4: the signature check passes exactly when signature and timestamp
\* are present, the timestamp is a finite number at most 300 seconds from
\* the current time, and the signature is "v0=" + HMAC(secret, "v0:" +
\* timestamp + ":" + body); it never throws.
C4_SignatureCheck ==
  \A p \in Procs :
    ReachedSignatureCheck(p) =>
      LET genuine == Genuine(p)
      IN /\ outcome[p] # "rejected"
         /\ res[p] = Ack <=> genuine
         /\ res[p].statusCode = 401 <=> ~genuine

C4_Witness ==
  \E p \in Procs :
    /\ ReachedSignatureCheck(p)
    /\ header(req[p], "timestamp") = "1300"
    /\ clock = 1000
    /\ res[p] = Ack

EventOf(p) == PayloadOf(p)["event"]

Has(obj, key, value) == key \in DOMAIN obj /\ obj[key] = value

Empty(obj, key) == key \notin DOMAIN obj \/ obj[key] = ""

IsChannelMessage(event) == Has(event, "type", "message") /\ Has(event, "channel_type", "channel")

\* the payload of an acknowledged request is not an event the dispatcher
\* routes, or is a channel message the thread handler ignores
NotRoutable(p) ==
  \/ ~Has(PayloadOf(p), "type", "event_callback")
  \/ "event" \notin DOMAIN PayloadOf(p)
  \/ /\ "event" \in DOMAIN PayloadOf(p)
     /\ \/ ~Has(EventOf(p), "type", "reaction_added") /\ ~IsChannelMessage(EventOf(p))
        \/ /\ IsChannelMessage(EventOf(p))
           /\ \/ ~Empty(EventOf(p), "subtype")
              \/ Empty(EventOf(p), "thread_ts")
              \/ Empty(EventOf(p), "channel")
              \/ Empty(EventOf(p), "text")
              \/ Empty(EventOf(p), "user")

\* C5: after the acknowledgment, a payload that is not a routable event
\* makes no downstream call and raises no error.
C5_DispatchNoOp ==
  \A p \in Procs :
    Handled(p) /\ res[p] = Ack /\ NotRoutable(p) =>
      /\ NoDownstream(p)
      /\ pc[p] = "done"
      /\ outcome[p] = "returned"
      /\ error[p] = ""

C5_Witness ==
  \E p \in Procs :
    /\ Handled(p) /\ res[p] = Ack
    /\ "event" \in DOMAIN PayloadOf(p)
    /\ IsChannelMessage(EventOf(p))
    /\ Has(EventOf(p), "subtype", "message_changed")
    /\ Has(EventOf(p), "text", "qa-feedback: fix the login")
    /\ NoDownstream(p) /\ outcome[p] = "returned"

CallKey(c) == <<c.method, c.url, c.body>>

\* C6: an exception raised by a downstream call is caught by the
\* dispatcher: the response stays 200 "ok", the handler is over, the failed
\* call is the last one issued, and no call is issued twice.
C6_FailureContained ==
  \A p \in Procs :
    /\ \A i \in 1..Len(calls[p]) :
         calls[p][i].raised =>
           /\ i = Len(calls[p])
           /\ pc[p] = "done" /\ outcome[p] = "caught" /\ todo[p] = << >>
           /\ res[p] = Ack
    /\ \A i, j \in 1..Len(calls[p]) : i < j => CallKey(calls[p][i]) # CallKey(calls[p][j])
    /\ calls[p] # << >> => outcome[p] # "rejected"

C6_Witness ==
  \E p \in Procs :
    /\ outcome[p] = "caught" /\ pc[p] = "done" /\ res[p] = Ack
    /\ Len(calls[p]) = 5
    /\ calls[p][5].fn = "addGithubLabels" /\ calls[p][5].raised /\ calls[p][5].status = 500

CountFn(p, fn) == Cardinality({i \in 1..Len(calls[p]) : calls[p][i].fn = fn})

CountOf(p, fn, arg) ==
  Cardinality({i \in 1..Len(calls[p]) : calls[p][i].fn = fn /\ calls[p][i].arg = arg})

\* the event handler of worker p resolved a QA context and ran to its end
\* without an exception
Completed(p) ==
  pc[p] = "done" /\ outcome[p] = "returned" /\ ~frame[p].qa.null /\ frame[p].actor # ""

ReactionIs(p, names) == frame[p].kind = "reaction" /\ frame[p].reaction \in names

\* every label call of worker p addresses the pull request of its QA context
OnResolvedPr(p) ==
  \A i \in 1..Len(calls[p]) :
    calls[p][i].fn \in {"removeGithubLabel", "addGithubLabels"} =>
      startsWith(calls[p][i].url,
                 "https://api.github.com/repos/" \o frame[p].qa.owner \o "/"
                   \o frame[p].qa.repo \o "/issues/" \o ToString(frame[p].qa.prNumber)
                   \o "/labels")

NotificationLast(p) ==
  /\ CountFn(p, "postSlackThreadMessage") = 1
  /\ calls[p][Len(calls[p])].fn = "postSlackThreadMessage"

\* C7: a completed approval reaction has issued exactly two remove-label
\* calls (qa:needed, qa:changes-requested) and one add-labels(qa:approved)
\* call on the resolved pull request, then one thread notification, and no
\* comment or issue.
C7_ApprovalReaction ==
  \A p \in Procs :
    Completed(p) /\ ReactionIs(p, {"white_check_mark", "heavy_check_mark", "check_mark"}) =>
      /\ CountFn(p, "removeGithubLabel") = 2
      /\ CountOf(p, "removeGithubLabel", "qa:needed") = 1
      /\ CountOf(p, "removeGithubLabel", "qa:changes-requested") = 1
      /\ CountFn(p, "addGithubLabels") = 1
      /\ CountOf(p, "addGithubLabels", "qa:approved") = 1
      /\ OnResolvedPr(p)
      /\ NotificationLast(p)
      /\ CountFn(p, "createPrComment") = 0
      /\ CountFn(p, "createBugIssue") = 0

C7_Witness ==
  \E p \in Procs :
    /\ Completed(p) /\ ReactionIs(p, {"heavy_check_mark"})
    /\ frame[p].qa.prNumber = 42
    /\ CountFn(p, "removeGithubLabel") = 2
    /\ <<"/repos/acme/app/issues/42", "qa:approved">> \in ghLabels

\* C8: a completed x reaction has removed qa:approved and qa:needed, added
\* qa:changes-requested on the resolved pull request, posted one thread
\* notification, and created no comment and no issue.
C8_ChangesRequestedReaction ==
  \A p \in Procs :
    Completed(p) /\ ReactionIs(p, {"x"}) =>
      /\ CountFn(p, "removeGithubLabel") = 2
      /\ CountOf(p, "removeGithubLabel", "qa:approved") = 1
      /\ CountOf(p, "removeGithubLabel", "qa:needed") = 1
      /\ CountFn(p, "addGithubLabels") = 1
      /\ CountOf(p, "addGithubLabels", "qa:changes-requested") = 1
      /\ OnResolvedPr(p)
      /\ NotificationLast(p)
      /\ CountFn(p, "createPrComment") = 0
      /\ CountFn(p, "createBugIssue") = 0

C8_Witness ==
  \E p \in Procs :
    /\ Completed(p) /\ ReactionIs(p, {"x"})
    /\ CountFn(p, "removeGithubLabel") = 2
    /\ <<IssuePath(frame[p].qa), "qa:changes-requested">> \in ghLabels
    /\ <<IssuePath(frame[p].qa), "qa:approved">> \notin ghLabels

TrackerFns == {"removeGithubLabel", "addGithubLabels", "createPrComment", "createBugIssue"}

NoTrackerCall(p) == \A i \in 1..Len(calls[p]) : calls[p][i].fn \notin TrackerFns

LabelReactions == {"white_check_mark", "heavy_check_mark", "check_mark", "x"}

\* the reaction handled by worker p is none of the three check marks and x
\* (the bug reaction and the ignored reactions)
LabelFreeReaction(p) == frame[p].kind = "reaction" /\ frame[p].reaction \notin LabelReactions

\* C9: a bug reaction makes no tracker call and, once completed, has posted
\* one thread notification; a reaction other than the check marks, x and
\* bug makes no tracker call and posts no notification; no step of either
\* changes the labels of the tracker.
C9_ReactionsWithoutLabels ==
  /\ [](\A p \in Procs :
          LabelFreeReaction(p) =>
            /\ NoTrackerCall(p)
            /\ IF frame[p].reaction = "bug"
                 THEN Completed(p) => NotificationLast(p)
                 ELSE CountFn(p, "postSlackThreadMessage") = 0)
  /\ [][\A p \in Procs :
          LabelFreeReaction(p) /\ calls'[p] # calls[p] => ghLabels' = ghLabels]_vars

C9_Witness ==
  \E p \in Procs :
    /\ Completed(p) /\ ReactionIs(p, {"bug"})
    /\ CountFn(p, "postSlackThreadMessage") = 1
    /\ NoTrackerCall(p)

\* C10: remove-label returns normally when the DELETE is answered 404 and
\* raises when it is answered any other non-2xx status, whatever the path
\* and the response body are.
C10_RemoveLabelOnly404 ==
  \A p \in Procs :
    \A i \in 1..Len(calls[p]) :
      calls[p][i].fn = "removeGithubLabel" =>
        /\ calls[p][i].status = 404 => ~calls[p][i].raised
        /\ calls[p][i].status >= 300 /\ calls[p][i].status # 404 => calls[p][i].raised

\* the trimmed text of the channel message handled by worker p
MessageText(p) == trim(StringOr(EventOf(p), "text"))

\* the channel message of worker p was acknowledged and passed the checks of
\* handleChannelThreadMessage
ThreadMessage(p) ==
  /\ Handled(p) /\ res[p] = Ack
  /\ Has(PayloadOf(p), "type", "event_callback")
  /\ "event" \in DOMAIN PayloadOf(p)
  /\ IsChannelMessage(EventOf(p))
  /\ ~NotRoutable(p)

\* text is prefix (in any letter case) followed by white space only
EmptyCommand(text, prefix) ==
  /\ Len(text) >= Len(prefix)
  /\ toLowerCase(SubSeq(text, 1, Len(prefix))) = prefix
  /\ \A i \in (Len(prefix) + 1)..Len(text) : IsSpace(CharAt(text, i))

HasPrefix(text, prefix) ==
  Len(text) >= Len(prefix) /\ toLowerCase(SubSeq(text, 1, Len(prefix))) = prefix

WithoutCommand(text) ==
  \/ EmptyCommand(text, "qa-feedback:")
  \/ EmptyCommand(text, "qa-bug:")
  \/ ~HasPrefix(text, "qa-feedback:") /\ ~HasPrefix(text, "qa-bug:")

NoTrackerCallAhead(p) == \A i \in 1..Len(todo[p]) : todo[p][i].fn \notin TrackerFns

\* C11: a thread message that is qa-feedback: or qa-bug: with nothing but
\* white space after the prefix, or that has neither prefix, makes no
\* add-labels, remove-label, create-comment or create-issue call and posts
\* no thread notification.
C11_EmptyCommandBody ==
  \A p \in Procs :
    ThreadMessage(p) /\ WithoutCommand(MessageText(p)) =>
      /\ NoTrackerCall(p) /\ NoTrackerCallAhead(p)
      /\ CountFn(p, "postSlackThreadMessage") = 0
      /\ \A i \in 1..Len(todo[p]) : todo[p][i].fn # "postSlackThreadMessage"

C11_Witness ==
  \E p \in Procs :
    /\ ThreadMessage(p)
    /\ StringOr(EventOf(p), "text") = "QA-Feedback:   "
    /\ ~frame[p].qa.null /\ frame[p].actor # ""
    /\ pc[p] = "done" /\ outcome[p] = "returned"
    /\ Len(calls[p]) = 2

\* the thread message of worker p is the command prefix followed by text
Command(p, prefix) ==
  ThreadMessage(p) /\ HasPrefix(MessageText(p), prefix) /\ ~EmptyCommand(MessageText(p), prefix)

FnsFrom(p, i) == [k \in 1..(Len(calls[p]) - i + 1) |-> calls[p][k + i - 1].fn]

\* the URLs of the issues the tracker may answer a creation with
IssueUrls == {r.data.html_url : r \in CreateIssueResponses} \ {""}

\* C12: a qa-bug: <text> message on a resolved thread makes one create-issue
\* call; when that call returns, a create-comment call on the pull request
\* comes next, its body naming the URL of the issue, and the notification
\* that follows carries that URL.
C12_BugReportCompound ==
  \A p \in Procs :
    Command(p, "qa-bug:") =>
      /\ CountFn(p, "createBugIssue") <= 1
      /\ \A i \in 1..Len(calls[p]) :
           calls[p][i].fn = "createBugIssue" /\ ~calls[p][i].raised =>
             IF i = Len(calls[p])
               THEN todo[p] # << >> /\ Head(todo[p]).fn = "createPrComment"
               ELSE calls[p][i + 1].fn = "createPrComment"
      /\ Completed(p) =>
           /\ FnsFrom(p, 3) = <<"createBugIssue", "createPrComment", "postSlackThreadMessage">>
           /\ \E url \in IssueUrls :
                /\ includes(calls[p][4].arg, "Issue: " \o url)
                /\ calls[p][5].arg = "Issue creata: " \o url

\* what follows the prefix in the thread message of worker p, trimmed
CommandBody(p, prefix) ==
  trim(SubSeq(MessageText(p), Len(prefix) + 1, Len(MessageText(p))))

\* C13: a completed qa-feedback: <text> reply has removed qa:approved and
\* qa:needed, added qa:changes-requested, created one comment on the pull
\* request that holds the trimmed feedback and the actor, then posted one
\* thread notification, and has created no issue.
C13_FeedbackReply ==
  \A p \in Procs :
    Command(p, "qa-feedback:") /\ Completed(p) =>
      /\ FnsFrom(p, 3) = <<"removeGithubLabel", "removeGithubLabel", "addGithubLabels",
                           "createPrComment", "postSlackThreadMessage">>
      /\ CountOf(p, "removeGithubLabel", "qa:approved") = 1
      /\ CountOf(p, "removeGithubLabel", "qa:needed") = 1
      /\ CountOf(p, "addGithubLabels", "qa:changes-requested") = 1
      /\ OnResolvedPr(p)
      /\ calls[p][6].url = "https://api.github.com" \o IssuePath(frame[p].qa) \o "/comments"
      /\ includes(calls[p][6].arg, CommandBody(p, "qa-feedback:"))
      /\ includes(calls[p][6].arg, "@" \o frame[p].actor)
      /\ CountFn(p, "createBugIssue") = 0

C13_Witness ==
  \E p \in Procs :
    /\ Command(p, "qa-feedback:") /\ Completed(p)
    /\ frame[p].actor = "Ada"
    /\ CountFn(p, "createPrComment") = 1
    /\ includes(calls[p][6].arg, "fix the login")
    /\ <<IssuePath(frame[p].qa), "qa:changes-requested">> \in ghLabels

\* text holds PR #<digits>, in any letter case
HasPrMarker(text) ==
  \E i \in 1..Len(text) :
    /\ i + 4 <= Len(text)
    /\ toLowerCase(SubSeq(text, i, i + 3)) = "pr #"
    /\ IsDigit(CharAt(text, i + 4))

\* text holds https://github.com/<owner>/<repo>/pull/<digits>
HasPrUrl(text) == PrUrlMatch(text, toLowerCase(text)).matched

\* d is <owner>/<repo> with both parts non-empty
WellFormedDefault(d) ==
  \E i \in 2..(Len(d) - 1) :
    /\ CharAt(d, i) = "/"
    /\ \A k \in 1..Len(d) : k # i => CharAt(d, k) # "/"

\* the event handler of worker p has read the parent message of the thread
ParentRead(p) ==
  /\ Handled(p) /\ res[p] = Ack
  /\ calls[p] # << >> /\ ~calls[p][1].raised

\* the parent message read by worker p leaves the pull request or the
\* repository unresolved
Unresolvable(p) ==
  \/ ~HasPrMarker(frame[p].parent)
  \/ ~HasPrUrl(frame[p].parent) /\ ~WellFormedDefault(config.DEFAULT_GITHUB_REPOSITORY)

\* C14: every QA context the resolver returns has a PR number, a non-empty
\* owner and a non-empty repo; a text without PR #<digits>, or without a
\* pull-request URL when the default is absent or malformed, resolves to
\* none, and an event without a context makes no tracker call and posts no
\* notification.
C14_QaContextInvariant ==
  \A p \in Procs :
    /\ ~frame[p].qa.null =>
         /\ frame[p].qa.prNumber \in Nat
         /\ frame[p].qa.owner # ""
         /\ frame[p].qa.repo # ""
    /\ ParentRead(p) /\ Unresolvable(p) => frame[p].qa.null
    /\ ParentRead(p) /\ frame[p].qa.null =>
         /\ NoTrackerCall(p) /\ NoTrackerCallAhead(p)
         /\ CountFn(p, "postSlackThreadMessage") = 0
         /\ pc[p] = "done" /\ outcome[p] = "returned"

\* the nine labelled fields: the field of the context and its label
LabelledFields ==
  {<<"app", "App">>, <<"commit", "Commit">>, <<"channel", "Channel">>,
   <<"iosBuildId", "iOS Build ID">>, <<"androidBuildId", "Android Build ID">>,
   <<"iosUpdateGroupId", "iOS Update Group ID">>,
   <<"androidUpdateGroupId", "Android Update Group ID">>,
   <<"runtimeIos", "Runtime iOS">>, <<"runtimeAndroid", "Runtime Android">>}

\* where in line the text <label>: <value> begins, 0 if nowhere
LabelAt(line, label) ==
  LET key == toLowerCase(label) \o ":"
      l == toLowerCase(line)
  IN FirstIndex([k \in 1..Len(line) |->
                   /\ MatchesAt(l, k, key)
                   /\ trim(SubSeq(line, k + Len(key), Len(line))) # ""])

\* the value of the first line of text that reads <label>: <value>
LineValue(text, label) ==
  LET lines == split(text, "\n")
      n == FirstIndex([k \in 1..Len(lines) |-> LabelAt(lines[k], label) # 0])
  IN IF n = 0 THEN Undefined
     ELSE Defined(trim(SubSeq(lines[n], LabelAt(lines[n], label) + Len(label) + 1,
                              Len(lines[n]))))

\* the field of a context as an optional value; app is always set
FieldOf(qa, name) == IF name = "app" THEN Defined(qa.app) ELSE qa[name]

\* C15: the context resolved from a parent message is a function of its
\* text, and each of its nine labelled fields is the value of the first
\* line <Label>: <value> of the text, absent when there is no such line.
C15_ExtractionFields ==
  \A p \in Procs :
    ~frame[p].qa.null =>
      /\ \A f \in LabelledFields :
           FieldOf(frame[p].qa, f[1]) = LineValue(frame[p].parent, f[2])
      /\ \A q \in Procs :
           ~frame[q].qa.null /\ frame[q].parent = frame[p].parent
             => frame[q].qa = frame[p].qa

\* the calls of a plan without their texts
Shape(plan) == [i \in 1..Len(plan) |-> [fn |-> plan[i].fn, labels |-> plan[i].labels]]

\* the users.info lookup of worker p failed
LookupFailed(p) ==
  /\ Len(calls[p]) >= 2
  /\ calls[p][2].fn = "resolveSlackUser"
  /\ calls[p][2].failed

\* C16: when the users.info lookup fails, the actor is the raw user id, the
\* failure does not reach the dispatcher, and the calls the handler goes on
\* to are those of a successful lookup.
C16_ActorFallback ==
  \A p \in Procs :
    LookupFailed(p) =>
      /\ ~calls[p][2].raised
      /\ frame[p].actor = frame[p].slackUserId
      /\ Len(calls[p]) = 2 =>
           /\ outcome[p] # "caught" /\ error[p] = ""
           /\ Shape(todo[p]) = Shape(PlanFor(frame[p], "Ada"))
           /\ todo[p] = PlanFor(frame[p], frame[p].slackUserId)

C16_Witness ==
  \E p \in Procs :
    /\ LookupFailed(p) /\ calls[p][2].status = 200
    /\ Completed(p) /\ ReactionIs(p, {"x"})
    /\ Len(calls[p]) = 6
    /\ includes(calls[p][6].arg, "@U1")

\* no call of worker p failed; a DELETE answered 404 found the label absent
Clean(p) ==
  \A i \in 1..Len(calls[p]) :
    calls[p][i].failed => calls[p][i].fn = "removeGithubLabel" /\ calls[p][i].status = 404

\* the labels of the tracker once the label calls of plan have been applied
\* to issue, one after the other, starting from labels
RECURSIVE LabelsAfter(_, _, _)
LabelsAfter(labels, issue, plan) ==
  IF plan = << >> THEN labels
  ELSE LET c == Head(plan)
           next == IF c.fn = "removeGithubLabel" THEN labels \ {<<issue, c.labels[1]>>}
                   ELSE IF c.fn = "addGithubLabels"
                     THEN labels \cup {<<issue, c.labels[i]>> : i \in 1..Len(c.labels)}
                   ELSE labels
       IN LabelsAfter(next, issue, Tail(plan))

\* the labels left by handling the delivery of worker p alone
AloneAfter(labels, p) ==
  LabelsAfter(labels, IssuePath(frame[p].qa), PlanFor(frame[p], frame[p].actor))

QaLabelsOf(labels, issue) == {l \in QaLabels : <<issue, l>> \in labels}

\* C17: when two deliveries for one pull request have been handled
\* concurrently without a failing call, the QA labels of the pull request
\* are those left by handling the two one after the other, in one of the
\* two orders.
C17_RacingDeliveriesConverge ==
  \A p, q \in Procs :
    /\ scenario = "race" /\ p # q
    /\ Completed(p) /\ Completed(q) /\ Clean(p) /\ Clean(q)
    /\ IssuePath(frame[p].qa) = IssuePath(frame[q].qa)
    => LET issue == IssuePath(frame[p].qa)
           start == history[1].labels
       IN QaLabelsOf(ghLabels, issue)
            \in {QaLabelsOf(AloneAfter(AloneAfter(start, p), q), issue),
                 QaLabelsOf(AloneAfter(AloneAfter(start, q), p), issue)}

\* the tracker answered the call c with success; for remove-label, 404 (the
\* label was absent) is a success
Succeeded(c) == ~c.failed \/ (c.fn = "removeGithubLabel" /\ c.status = 404)

\* C18: a thread notification is posted only when every tracker call of the
\* event has been made and has succeeded; after a tracker call that failed
\* or raised, no notification is posted for the event.
C18_ConfirmationImpliesSuccess ==
  \A p \in Procs :
    \A i \in 1..Len(calls[p]) :
      /\ calls[p][i].fn = "postSlackThreadMessage" =>
           /\ \A k \in 1..(i - 1) : calls[p][k].fn \in TrackerFns => Succeeded(calls[p][k])
           /\ NoTrackerCallAhead(p)
      /\ calls[p][i].fn \in TrackerFns /\ (calls[p][i].raised \/ ~Succeeded(calls[p][i])) =>
           CountFn(p, "postSlackThreadMessage") = 0

\* the delivery of worker p is one that sets labels: an approval reaction,
\* an x reaction or a qa-feedback reply
LabelDelivery(p) == ReactionIs(p, LabelReactions) \/ Command(p, "qa-feedback:")

LastFinished == history[Len(history)]

\* worker p handles again the delivery that was finished last
Redelivery(p) ==
  /\ scenario = "sequence"
  /\ Len(history) >= 2
  /\ Handled(p) /\ LastFinished.req = req[p]
  /\ LabelDelivery(p)

\* C19: when an approval reaction, an x reaction or a qa-feedback reply is
\* handled a second time right after the first, no remove-label call of
\* the second run raises, although the labels are already absent, and the
\* completed second run leaves the labels the first run left.
C19_DuplicateDeliveryIdempotent ==
  \A p \in Procs :
    Redelivery(p) =>
      /\ \A i \in 1..Len(calls[p]) :
           calls[p][i].fn = "removeGithubLabel" =>
             calls[p][i].status = 404 /\ ~calls[p][i].raised
      /\ outcome[p] # "caught"
      /\ pc[p] = "done" => Completed(p) /\ ghLabels = LastFinished.labels

C19_Witness ==
  \E p \in Procs :
    /\ Redelivery(p) /\ Completed(p) /\ ReactionIs(p, {"x"})
    /\ history[1].labels = SampleIssues \X {"qa:approved"}
    /\ CountFn(p, "removeGithubLabel") = 2
    /\ calls[p][3].status = 404 /\ calls[p][4].status = 404
    /\ QaLabelsOf(ghLabels, IssuePath(frame[p].qa)) = {"qa:changes-requested"}
    /\ ghLabels = LastFinished.labels

\* the request r is one of the deliveries that set labels
LabelRequest(r) ==
  LET event == ObjectOr(JSONParse(readRawBody(r)).value, "event")
  IN \/ Has(event, "type", "reaction_added") /\ StringOr(event, "reaction") \in LabelReactions
     \/ IsChannelMessage(event) /\ HasPrefix(trim(StringOr(event, "text")), "qa-feedback:")

\* issue carries qa:approved or qa:changes-requested, not both, and not
\* qa:needed
Exclusive(labels, issue) ==
  QaLabelsOf(labels, issue) \in {{"qa:approved"}, {"qa:changes-requested"}}

WorkflowIssue == IssuePath(extractQaContext(WorkflowParent, WorkflowConfig.DEFAULT_GITHUB_REPOSITORY))

\* C20: from a pull request with at most one QA label, after approval
\* reactions, x reactions and qa-feedback replies handled to completion one
\* at a time without a failing call, the pull request carries exactly one
\* of qa:approved and qa:changes-requested and does not carry qa:needed.
C20_LabelsMutuallyExclusive ==
  scenario = "sequence" /\ Cardinality(QaLabelsOf(history[1].labels, WorkflowIssue)) <= 1 =>
    /\ \A k \in 2..Len(history) :
         LabelRequest(history[k].req) => Exclusive(history[k].labels, WorkflowIssue)
    /\ \A p \in Procs :
         LabelDelivery(p) /\ Completed(p) /\ Clean(p)
           => Exclusive(ghLabels, IssuePath(frame[p].qa))

C20_Witness ==
  /\ scenario = "sequence"
  /\ Len(history) = 3
  /\ history[1].labels = SampleIssues \X {"qa:needed"}
  /\ LabelRequest(history[2].req) /\ LabelRequest(history[3].req)
  /\ QaLabelsOf(history[2].labels, WorkflowIssue) = {"qa:approved"}
  /\ QaLabelsOf(history[3].labels, WorkflowIssue) = {"qa:changes-requested"}
  /\ ghLabels = history[3].labels

====
